---- MODULE Spec2Model ----
(***************************************************************************)
(* State-machine model of the 1D compressible Euler solver                 *)
(* (src/js/euler-solver.js) and its time integrators                       *)
(* (src/js/xt-mixture.js, TimeIntegrator / RK2Integrator / SSPIntegrator / *)
(* IntegratorFactory).                                                     *)
(*                                                                         *)
(* Numbers.  A JavaScript Number is modelled as a fixed-point value: the   *)
(* integer v stands for the real v / FScale.  Three values outside the     *)
(* finite range stand for NaN, +Infinity and -Infinity, with the IEEE      *)
(* rules for them (NaN propagates, every comparison with NaN is false,     *)
(* x/0 is an infinity or NaN).  Rounding is to nearest, half away from     *)
(* zero, so that it is symmetric in sign as IEEE rounding is.  A finite    *)
(* result beyond MaxFinite overflows to an infinity.                       *)
(***************************************************************************)
EXTENDS Integers, Sequences, FiniteSets

\* ------------------------------------------------------------------------
\* Number model
\* ------------------------------------------------------------------------

\* resolution of the fixed-point model of a Number: the integer v stands for v/FScale
FScale == 1000

\* largest finite magnitude; MaxFinite * MaxFinite still fits a 32-bit integer
MaxFinite == 46340

PInf == 1000000000

NInf == -PInf

NaN == 2000000000

One == FScale

Half == FScale \div 2

\* the Number n (an integer) in fixed point
F(n) == n * FScale

IsNaN(a) == a = NaN

IsFin(a) == a # NaN /\ a # PInf /\ a # NInf

Sgn(a) == IF a > 0 THEN 1 ELSE IF a < 0 THEN -1 ELSE 0

IAbs(a) == IF a < 0 THEN -a ELSE a

\* overflow of a finite result to an infinity
Sat(v) == IF v > MaxFinite THEN PInf ELSE IF v < -MaxFinite THEN NInf ELSE v

\* n / d rounded to the nearest integer, half away from zero (d # 0)
RoundDiv(n, d) == Sgn(n) * Sgn(d) * ((IAbs(n) + (IAbs(d) \div 2)) \div IAbs(d))

FNeg(a) == IF a = NaN THEN NaN ELSE -a

FAdd(a, b) ==
    IF a = NaN \/ b = NaN THEN NaN
    ELSE IF a = PInf THEN (IF b = NInf THEN NaN ELSE PInf)
    ELSE IF a = NInf THEN (IF b = PInf THEN NaN ELSE NInf)
    ELSE IF ~IsFin(b) THEN b
    ELSE Sat(a + b)

FSub(a, b) == FAdd(a, FNeg(b))

FMul(a, b) ==
    IF a = NaN \/ b = NaN THEN NaN
    ELSE IF ~IsFin(a) \/ ~IsFin(b)
         THEN (IF a = 0 \/ b = 0 THEN NaN
               ELSE IF Sgn(a) * Sgn(b) > 0 THEN PInf ELSE NInf)
    ELSE Sat(RoundDiv(a * b, FScale))

FDiv(a, b) ==
    IF a = NaN \/ b = NaN THEN NaN
    ELSE IF ~IsFin(a) THEN (IF ~IsFin(b) THEN NaN
                            ELSE IF Sgn(a) * (IF b < 0 THEN -1 ELSE 1) > 0 THEN PInf ELSE NInf)
    ELSE IF ~IsFin(b) THEN 0
    ELSE IF b = 0 THEN (IF a = 0 THEN NaN ELSE IF a > 0 THEN PInf ELSE NInf)
    ELSE Sat(RoundDiv(a * FScale, b))

RECURSIVE ISqrtIn(_, _, _)
\* the largest r in lo..hi with r * r <= v (bisection)
ISqrtIn(v, lo, hi) ==
    IF lo >= hi THEN lo
    ELSE LET mid == (lo + hi + 1) \div 2
         IN IF mid * mid <= v THEN ISqrtIn(v, mid, hi) ELSE ISqrtIn(v, lo, mid - 1)

\* the integer nearest to the square root of v, given r = floor(sqrt(v))
SqrtNearest(v, r) == IF v - r * r <= r THEN r ELSE r + 1

\* Math.sqrt
FSqrt(a) ==
    IF a = NaN \/ a < 0 THEN NaN
    ELSE IF a = PInf THEN PInf
    ELSE SqrtNearest(a * FScale, ISqrtIn(a * FScale, 0, MaxFinite))

\* Math.min / Math.max / Math.abs: NaN if an argument is NaN
FMin(a, b) == IF a = NaN \/ b = NaN THEN NaN ELSE IF a < b THEN a ELSE b

FMax(a, b) == IF a = NaN \/ b = NaN THEN NaN ELSE IF a > b THEN a ELSE b

FAbs(a) == IF a = NaN THEN NaN ELSE IAbs(a)

\* the comparison operators: false when an operand is NaN
FLt(a, b) == a # NaN /\ b # NaN /\ a < b

FGt(a, b) == a # NaN /\ b # NaN /\ a > b

FGe(a, b) == a # NaN /\ b # NaN /\ a >= b

FLe(a, b) == a # NaN /\ b # NaN /\ a <= b

\* v || d : a falsy Number (0 or NaN) selects the default
OrDefault(v, d) == IF v = 0 \/ v = NaN THEN d ELSE v

\* ------------------------------------------------------------------------
\* Arrays.  A Float64Array / Array of length n is a function on 0..n-1.
\* ------------------------------------------------------------------------

\* new Float64Array(n): n zeros
ZeroArray(n) == [k \in 0..(n - 1) |-> 0]

\* new Array(n): n empty slots
EmptyArray(n) == [k \in 0..(n - 1) |-> "undefined"]

\* Ru = 8314.51 J/(kmol K), here 8.315 in the model's units (kJ/(kmol K))
Ru == 8315

\* the integrator names IntegratorFactory knows
IntegratorNames == {"RK2", "SSP"}

InterfaceMethods == {"sharp", "ghost", "mixed"}

\* IntegratorFactory.create(name): the name of the integrator class instantiated
IntegratorFactoryCreate(name) ==
    CASE name = "RK2" -> "RK2"
      [] name = "SSP" -> "SSP"
      [] OTHER -> "RK2"

\* the defaults of the constructor (config.x || default), in the model's units:
\* nx 500, CFL 0.4, finalTime 0.02, xtInterval 0.0001 (below the resolution of
\* the number model, so one unit of it)
DefaultNx == 500

DefaultCfl == 400

DefaultFinalTime == 20

DefaultXtInterval == 1

\* config.integrator || 'RK2', config.interfaceMethod || 'sharp'
OrDefaultName(v, d) == IF v = "" THEN d ELSE v

\* new EulerSolver(config), for a config whose nx is a valid array length
constructor(config) ==
    LET n == OrDefault(config.nx, DefaultNx)
    IN [ nx |-> n,
         cfl |-> OrDefault(config.cfl, DefaultCfl),
         finalTime |-> OrDefault(config.finalTime, DefaultFinalTime),
         interfaceMethod |-> OrDefaultName(config.interfaceMethod, "sharp"),
         integrator |-> IntegratorFactoryCreate(OrDefaultName(config.integrator, "RK2")),
         x |-> ZeroArray(n),
         dx |-> 0,
         U |-> ZeroArray(n * 3),
         Un |-> ZeroArray(n * 3),
         Uk |-> ZeroArray(n * 3),
         rho |-> ZeroArray(n),
         u |-> ZeroArray(n),
         p |-> ZeroArray(n),
         T |-> ZeroArray(n),
         gamma |-> ZeroArray(n),
         mw |-> ZeroArray(n),
         gasId |-> EmptyArray(n),
         flux |-> ZeroArray((n + 1) * 3),
         t |-> 0,
         dt |-> 0,
         timeSteps |-> 0,
         xtData |-> << >>,
         xtInterval |-> OrDefault(config.xtInterval, DefaultXtInterval),
         nextXTStore |-> 0,
         tracers |-> << >>,
         regions |-> << >>,
         numMaterials |-> 0,
         materialFractions |-> << >>,
         materialProperties |-> << >>,
         materialFlux |-> << >>,
         interfaceCells |-> {} ]

\* new Float64Array(n) throws a RangeError for a negative length
constructorThrows(config) == OrDefault(config.nx, DefaultNx) < 0

\* ------------------------------------------------------------------------
\* initialize(slabs)
\* ------------------------------------------------------------------------

RECURSIVE SumLengths(_, _)
\* slabs.reduce((sum, slab) => sum + slab.length, 0) over the first n slabs
SumLengths(slabs, n) ==
    IF n = 0 THEN 0 ELSE FAdd(SumLengths(slabs, n - 1), slabs[n].length)

RECURSIVE slabScanWhile(_, _, _, _)
\* the while loop of the slab scan: <<currentPos, slabIndex>> when it exits
\* (slabIndex is 0-based as in the source; slabs is a sequence, so slabs[slabIndex + 1])
slabScanWhile(slabs, cellCenter, currentPos, slabIndex) ==
    IF slabIndex < Len(slabs) - 1
       /\ FGe(cellCenter, FAdd(currentPos, slabs[slabIndex + 1].length))
    THEN slabScanWhile(slabs, cellCenter,
                       FAdd(currentPos, slabs[slabIndex + 1].length), slabIndex + 1)
    ELSE <<currentPos, slabIndex>>

RECURSIVE slabScan(_, _, _, _, _, _)
\* the slab index of every cell 0..nx-1: the scan carries currentPos and
\* slabIndex from one cell to the next
slabScan(slabs, x, nx, i, currentPos, slabIndex) ==
    IF i >= nx THEN << >>
    ELSE LET w == slabScanWhile(slabs, x[i], currentPos, slabIndex)
         IN <<w[2]>> \o slabScan(slabs, x, nx, i + 1, w[1], w[2])

\* the conservative state initialize gives a cell of the slab: <<rho, rho*u, E>>
initialState(slab) ==
    LET R == FDiv(Ru, slab.mw)
        rho == FDiv(slab.pressure, FMul(R, slab.temperature))
        u == 0
        p == slab.pressure
        E == FAdd(FDiv(p, FSub(slab.gamma, One)), FMul(FMul(FMul(Half, rho), u), u))
    IN <<rho, FMul(rho, u), E>>

\* slabs.map(slab => ({gamma, mw, gasId}))
regionsOf(slabs) ==
    [k \in 1..Len(slabs) |->
        [gamma |-> slabs[k].gamma, mw |-> slabs[k].mw, gasId |-> slabs[k].gasId]]

\* initialTracers without the test "i < slabs.length - 1": a tracer at the end
\* of the last slab too
initialTracersAtEveryEnd(slabs) ==
    [k \in 1..Len(slabs) |->
        [x |-> SumLengths(slabs, k),
         trajectory |-> <<[t |-> 0, x |-> SumLengths(slabs, k)]>>]]

\* the tracers initialize pushes: one at the end of every slab but the last
initialTracers(slabs) ==
    [k \in 1..(Len(slabs) - 1) |->
        LET currentPos == SumLengths(slabs, k)
        IN [x |-> currentPos, trajectory |-> <<[t |-> 0, x |-> currentPos]>>]]

\* the material fraction table of the mixed method: overlap of cell i with slab s over dx
initialFractions(slabs, nx, dx) ==
    [idx \in 0..(nx * Len(slabs) - 1) |->
        LET i == idx \div Len(slabs)
            s == idx % Len(slabs)
            cellLeft == FMul(F(i), dx)
            cellRight == FMul(F(i + 1), dx)
            slabLeft == SumLengths(slabs, s)
            slabRight == FAdd(slabLeft, slabs[s + 1].length)
            overlapLeft == FMax(cellLeft, slabLeft)
            overlapRight == FMin(cellRight, slabRight)
            overlap == FMax(0, FSub(overlapRight, overlapLeft))
        IN FDiv(overlap, dx)]

\* updatePrimitives(): rho, u, p, T of every cell from U, gamma and mw
updatePrimitives(s) ==
    LET rhoOf(i) == s.U[i * 3]
        uOf(i) == FDiv(s.U[i * 3 + 1], rhoOf(i))
        pOf(i) == FMul(FSub(s.gamma[i], One),
                       FSub(s.U[i * 3 + 2],
                            FMul(FMul(FMul(Half, rhoOf(i)), uOf(i)), uOf(i))))
        TOf(i) == FDiv(pOf(i), FMul(rhoOf(i), FDiv(Ru, s.mw[i])))
    IN [s EXCEPT !.rho = [i \in 0..(s.nx - 1) |-> rhoOf(i)],
                 !.u = [i \in 0..(s.nx - 1) |-> uOf(i)],
                 !.p = [i \in 0..(s.nx - 1) |-> pOf(i)],
                 !.T = [i \in 0..(s.nx - 1) |-> TOf(i)]]

\* the snapshot storeXTData takes: copies of the time and of the arrays
snapshotOf(s) ==
    [t |-> s.t, rho |-> s.rho, u |-> s.u, p |-> s.p, T |-> s.T,
     gamma |-> s.gamma, mw |-> s.mw, gasId |-> s.gasId]

\* storeXTData keeping one snapshot only: the new one replaces the list
storeXTDataLatestOnly(s) == [s EXCEPT !.xtData = <<snapshotOf(s)>>]

\* storeXTData(): push the snapshot
storeXTData(s) == [s EXCEPT !.xtData = Append(s.xtData, snapshotOf(s))]

\* initialize(slabs) throws a TypeError (slabs[0] is undefined) for an empty list
\* when there is a cell to fill
initializeThrows(s, slabs) == Len(slabs) = 0 /\ s.nx > 0

\* initialize(slabs) from the assignment of the cells on: cellSlab is the slab
\* index found for every cell
initializeCells(s, slabs, dx, x, cellSlab) ==
    LET slabOf(i) == slabs[cellSlab[i + 1] + 1]
        mixed == s.interfaceMethod = "mixed"
        s1 == [s EXCEPT
                 !.dx = dx,
                 !.x = x,
                 !.gamma = [i \in 0..(s.nx - 1) |-> slabOf(i).gamma],
                 !.mw = [i \in 0..(s.nx - 1) |-> slabOf(i).mw],
                 !.gasId = [i \in 0..(s.nx - 1) |-> slabOf(i).gasId],
                 !.U = [k \in 0..(s.nx * 3 - 1) |-> initialState(slabOf(k \div 3))[(k % 3) + 1]],
                 !.regions = regionsOf(slabs),
                 !.tracers = s.tracers \o initialTracers(slabs),
                 !.numMaterials = IF mixed THEN Len(slabs) ELSE s.numMaterials,
                 !.materialFractions =
                     IF mixed THEN initialFractions(slabs, s.nx, dx) ELSE s.materialFractions,
                 !.materialFlux =
                     IF mixed THEN ZeroArray((s.nx + 1) * Len(slabs)) ELSE s.materialFlux,
                 !.materialProperties =
                     IF mixed THEN regionsOf(slabs) ELSE s.materialProperties]
    IN storeXTData(updatePrimitives(s1))

\* initialize(slabs) from the grid points on
initializeGrid(s, slabs, dx, x) ==
    initializeCells(s, slabs, dx, x, slabScan(slabs, x, s.nx, 0, 0, 0))

\* initialize(slabs) from the grid spacing on
initializeSpacing(s, slabs, dx) ==
    initializeGrid(s, slabs, dx, [i \in 0..(s.nx - 1) |-> FMul(F(i) + Half, dx)])

\* initialize(slabs), for a non-empty list
initialize(s, slabs) ==
    initializeSpacing(s, slabs, FDiv(SumLengths(slabs, Len(slabs)), F(s.nx)))

\* ------------------------------------------------------------------------
\* HLLC flux
\* ------------------------------------------------------------------------

\* the values hllcFlux derives from the state <<rho, rho*u, E>> on one side of
\* the interface: density, velocity, energy, pressure and sound speed
hllcSidePressure(rho, u, E, gamma, p) ==
    [rho |-> rho, u |-> u, E |-> E, p |-> p,
     a |-> FSqrt(FDiv(FMul(gamma, p), rho))]

hllcSideVelocity(rho, u, E, gamma) ==
    hllcSidePressure(rho, u, E, gamma,
        FMul(FSub(gamma, One), FSub(E, FMul(FMul(FMul(Half, rho), u), u))))

hllcSide(U, gamma) == hllcSideVelocity(U[1], FDiv(U[2], U[1]), U[3], gamma)

\* the "left flux" / "right flux" branch: the flux of the side's own state
hllcSideFlux(Q) ==
    << FMul(Q.rho, Q.u),
       FAdd(FMul(FMul(Q.rho, Q.u), Q.u), Q.p),
       FMul(Q.u, FAdd(Q.E, Q.p)) >>

\* the "left star flux" / "right star flux" branch for side Q with wave speed S
hllcStarFluxOf(Q, S, SStar, pStar, rhoStar) ==
    << FMul(rhoStar, SStar),
       FAdd(FMul(FMul(rhoStar, SStar), SStar), pStar),
       FMul(SStar,
            FAdd(FMul(rhoStar,
                      FAdd(FDiv(Q.E, Q.rho),
                           FMul(FSub(SStar, Q.u),
                                FAdd(SStar, FDiv(Q.p, FMul(Q.rho, FSub(S, Q.u))))))),
                 pStar)) >>

hllcStarFlux(Q, S, SStar) ==
    hllcStarFluxOf(Q, S, SStar,
        FAdd(Q.p, FMul(FMul(Q.rho, FSub(S, Q.u)), FSub(SStar, Q.u))),
        FDiv(FMul(Q.rho, FSub(S, Q.u)), FSub(S, SStar)))

\* the flux chosen by the wave structure, and the wave speed returned
hllcBranch(L, R, SL, SR, SStar) ==
    [flux |-> IF FGe(SL, 0) THEN hllcSideFlux(L)
              ELSE IF FGe(SStar, 0) THEN hllcStarFlux(L, SL, SStar)
              ELSE IF FGe(SR, 0) THEN hllcStarFlux(R, SR, SStar)
              ELSE hllcSideFlux(R),
     waveSpeed |-> FMax(FAbs(SL), FAbs(SR))]

\* the middle wave speed
hllcMiddle(L, R, SL, SR) ==
    hllcBranch(L, R, SL, SR,
        FDiv(FSub(FAdd(FSub(R.p, L.p), FMul(FMul(L.rho, L.u), FSub(SL, L.u))),
                  FMul(FMul(R.rho, R.u), FSub(SR, R.u))),
             FSub(FMul(L.rho, FSub(SL, L.u)), FMul(R.rho, FSub(SR, R.u)))))

\* the wave speed estimates (Davis)
hllcWaves(L, R) ==
    hllcMiddle(L, R, FMin(FSub(L.u, L.a), FSub(R.u, R.a)),
                     FMax(FAdd(L.u, L.a), FAdd(R.u, R.a)))

\* hllcFlux(UL, UR, gammaL, gammaR): the three flux components written to
\* fluxOut and the wave speed returned.  UL, UR are <<rho, rho*u, E>>.
hllcFlux(UL, UR, gammaL, gammaR) == hllcWaves(hllcSide(UL, gammaL), hllcSide(UR, gammaR))

\* interfaceStates with transmissive walls: the ghost state is a plain copy of
\* the adjacent cell
interfaceStatesTransmissive(U, gamma, nx, i) ==
    LET idxL == (IF i = 0 THEN 0 ELSE i - 1) * 3
        idxR == (IF i = nx THEN nx - 1 ELSE i) * 3
    IN [UL |-> << U[idxL], U[idxL + 1], U[idxL + 2] >>,
        UR |-> << U[idxR], U[idxR + 1], U[idxR + 2] >>,
        gammaL |-> gamma[idxL \div 3], gammaR |-> gamma[idxR \div 3]]

\* the left and right states and gammas computeFluxes builds at interface i
interfaceStates(U, gamma, nx, i) ==
    IF i = 0 THEN
        [UL |-> << U[0], FNeg(U[1]), U[2] >>,
         UR |-> << U[0], U[1], U[2] >>,
         gammaL |-> gamma[0], gammaR |-> gamma[0]]
    ELSE IF i = nx THEN
        LET idx == (nx - 1) * 3
        IN [UL |-> << U[idx], U[idx + 1], U[idx + 2] >>,
            UR |-> << U[idx], FNeg(U[idx + 1]), U[idx + 2] >>,
            gammaL |-> gamma[nx - 1], gammaR |-> gamma[nx - 1]]
    ELSE
        LET idxL == (i - 1) * 3
            idxR == i * 3
        IN [UL |-> << U[idxL], U[idxL + 1], U[idxL + 2] >>,
            UR |-> << U[idxR], U[idxR + 1], U[idxR + 2] >>,
            gammaL |-> gamma[i - 1], gammaR |-> gamma[i]]

hllcFluxOfStates(st) == hllcFlux(st.UL, st.UR, st.gammaL, st.gammaR)

\* the result of hllcFlux at interface i
interfaceFlux(U, gamma, nx, i) == hllcFluxOfStates(interfaceStates(U, gamma, nx, i))

RECURSIVE maxWaveSpeedUpTo(_, _)
\* maxWaveSpeed after interfaces 0..i: Math.max folded from 0
maxWaveSpeedUpTo(h, i) ==
    IF i < 0 THEN 0 ELSE FMax(maxWaveSpeedUpTo(h, i - 1), h[i].waveSpeed)

\* the flux array and the max wave speed, from the results h of hllcFlux at
\* the interfaces 0..nx
fluxesOf(h, nx) ==
    [flux |-> [k \in 0..((nx + 1) * 3 - 1) |-> h[k \div 3].flux[(k % 3) + 1]],
     maxWaveSpeed |-> maxWaveSpeedUpTo(h, nx)]

\* computeFluxes(): the flux array written and the max wave speed returned
computeFluxes(s) ==
    fluxesOf([i \in 0..s.nx |-> interfaceFlux(s.U, s.gamma, s.nx, i)], s.nx)

\* updateConservative with the two interface fluxes of a cell added instead of
\* subtracted
updateConservativeSummed(s, U, dt) ==
    [j \in 0..(s.nx * 3 - 1) |->
        FSub(U[j], FMul(FDiv(dt, s.dx), FAdd(s.flux[j + 3], s.flux[j])))]

\* updateConservative(U, Uout, dt): the array written to Uout
updateConservative(s, U, dt) ==
    [j \in 0..(s.nx * 3 - 1) |->
        LET i == j \div 3
            k == j % 3
            idx == i * 3
            fluxL == i * 3
            fluxR == (i + 1) * 3
        IN FSub(U[idx + k],
                FMul(FDiv(dt, s.dx), FSub(s.flux[fluxR + k], s.flux[fluxL + k])))]

RECURSIVE updateConservativeInPlaceFrom(_, _, _, _)
\* updateConservative(buf, buf, dt) from entry j on: input and output are the
\* same buffer, so every entry is read from the buffer as the entries before
\* it have left it
updateConservativeInPlaceFrom(s, buf, dt, j) ==
    IF j >= s.nx * 3 THEN buf
    ELSE updateConservativeInPlaceFrom(s,
             [buf EXCEPT ![j] = FSub(buf[j],
                                     FMul(FDiv(dt, s.dx), FSub(s.flux[j + 3], s.flux[j])))],
             dt, j + 1)

\* updateConservative(buf, buf, dt): the buffer after the in-place pass
updateConservativeInPlace(s, buf, dt) == updateConservativeInPlaceFrom(s, buf, dt, 0)

\* ------------------------------------------------------------------------
\* Interface tracking, tracers
\* ------------------------------------------------------------------------

\* mixtureAdd with "alpha >= maxFraction": on a tie the later material becomes
\* the dominant one
mixtureAddLatestOnTie(a, alpha, gamma, mw, mat) ==
    [gamma_mix_inv |-> FAdd(a.gamma_mix_inv, FDiv(alpha, FSub(gamma, One))),
     mw_mix |-> FAdd(a.mw_mix, FMul(alpha, mw)),
     totalFraction |-> FAdd(a.totalFraction, alpha),
     dominantMaterial |-> IF FGe(alpha, a.maxFraction) THEN mat ELSE a.dominantMaterial,
     maxFraction |-> IF FGe(alpha, a.maxFraction) THEN alpha ELSE a.maxFraction]

\* one pass of the accumulation loop of computeMixtureProperties: material
\* mat with fraction alpha added to the sums a
mixtureAdd(a, alpha, gamma, mw, mat) ==
    [gamma_mix_inv |-> FAdd(a.gamma_mix_inv, FDiv(alpha, FSub(gamma, One))),
     mw_mix |-> FAdd(a.mw_mix, FMul(alpha, mw)),
     totalFraction |-> FAdd(a.totalFraction, alpha),
     dominantMaterial |-> IF FGt(alpha, a.maxFraction) THEN mat ELSE a.dominantMaterial,
     maxFraction |-> IF FGt(alpha, a.maxFraction) THEN alpha ELSE a.maxFraction]

RECURSIVE mixtureLoop(_, _, _)
\* the accumulation loop of computeMixtureProperties over materials 0..m-1
mixtureLoop(s, cellIdx, m) ==
    IF m = 0
    THEN [gamma_mix_inv |-> 0, mw_mix |-> 0, totalFraction |-> 0,
          dominantMaterial |-> 0, maxFraction |-> 0]
    ELSE mixtureAdd(mixtureLoop(s, cellIdx, m - 1),
                    s.materialFractions[cellIdx * s.numMaterials + (m - 1)],
                    s.materialProperties[m].gamma,
                    s.materialProperties[m].mw,
                    m - 1)

\* the properties computeMixtureProperties returns for the normalised sums
mixtureProperties(s, gamma_mix_inv, mw_mix, dominantMaterial) ==
    [gamma |-> FAdd(One, FDiv(One, gamma_mix_inv)),
     mw |-> mw_mix,
     gasId |-> s.materialProperties[dominantMaterial + 1].gasId]

\* the normalisation of the sums a, or the fallback to material 0; 1e-10 is
\* below the resolution of the number model, so totalFraction > 1e-10 is
\* totalFraction > 0 here
mixtureNormalise(s, a) ==
    IF FGt(a.totalFraction, 0)
    THEN mixtureProperties(s, FDiv(a.gamma_mix_inv, a.totalFraction),
                           FDiv(a.mw_mix, a.totalFraction), a.dominantMaterial)
    ELSE mixtureProperties(s, FDiv(One, FSub(s.materialProperties[1].gamma, One)),
                           s.materialProperties[1].mw, 0)

\* computeMixtureProperties(cellIdx)
computeMixtureProperties(s, cellIdx) ==
    mixtureNormalise(s, mixtureLoop(s, cellIdx, s.numMaterials))

RECURSIVE InsertSorted(_, _)
InsertSorted(seq, v) ==
    IF seq = << >> THEN <<v>>
    ELSE IF v < Head(seq) THEN <<v>> \o seq
    ELSE <<Head(seq)>> \o InsertSorted(Tail(seq), v)

RECURSIVE SortAsc(_)
\* .sort((a, b) => a - b): ascending (a NaN position, for which the
\* comparator is inconsistent, is put last)
SortAsc(seq) ==
    IF seq = << >> THEN << >> ELSE InsertSorted(SortAsc(Tail(seq)), Head(seq))

\* tracerPositions without the sort: the positions in the order of the tracers
tracerPositionsUnsorted(s) == [k \in 1..Len(s.tracers) |-> s.tracers[k].x]

\* this.tracers.map(t => t.x).sort((a, b) => a - b)
tracerPositions(s) == SortAsc([k \in 1..Len(s.tracers) |-> s.tracers[k].x])

\* the distance identifyInterfaceCells takes from cell i to a tracer
tracerDistance(s, i, tracerX) ==
    FMin(FMin(FAbs(FSub(tracerX, FMul(F(i), s.dx))),
              FAbs(FSub(tracerX, FMul(F(i + 1), s.dx)))),
         FAbs(FSub(tracerX, s.x[i])))

\* the cells within 1.5 dx of one of the positions tp
interfaceCellsOf(s, tp) ==
    {i \in 0..(s.nx - 1) :
        \E k \in 1..Len(tp) : FLt(tracerDistance(s, i, tp[k]), FMul(One + Half, s.dx))}

\* identifyInterfaceCells()
identifyInterfaceCells(s) ==
    [s EXCEPT !.interfaceCells = interfaceCellsOf(s, tracerPositions(s))]

RECURSIVE regionLoop(_, _, _)
\* the region loop: regionIndex after scanning the sorted positions from j (0-based)
regionLoop(tp, cellCenter, j) ==
    IF j < Len(tp) /\ FGt(cellCenter, tp[j + 1])
    THEN regionLoop(tp, cellCenter, j + 1)
    ELSE j

\* Math.max(0, Math.min(regionIndex, regions.length - 1))
regionClamp(regionIndex, last) ==
    IF (IF last < regionIndex THEN last ELSE regionIndex) < 0 THEN 0
    ELSE IF last < regionIndex THEN last ELSE regionIndex

\* the sharp region assignment of cell i: the region index, clamped
regionIndexOf(s, tp, i) == regionClamp(regionLoop(tp, s.x[i], 0), Len(s.regions) - 1)

\* gamma, mw and gasId of every cell, from the record props gives each cell
assignProperties(s, props) ==
    [s EXCEPT !.gamma = [i \in 0..(s.nx - 1) |-> props[i].gamma],
              !.mw = [i \in 0..(s.nx - 1) |-> props[i].mw],
              !.gasId = [i \in 0..(s.nx - 1) |-> props[i].gasId]]

\* the sharp assignment for the sorted tracer positions tp
sharpAssignAt(s, tp) ==
    assignProperties(s, [i \in 0..(s.nx - 1) |-> s.regions[regionIndexOf(s, tp, i) + 1]])

\* the sharp assignment of gamma, mw and gasId to every cell
sharpAssign(s) == sharpAssignAt(s, tracerPositions(s))

\* updateGasProperties with a treatment of the marked cells in ghost mode: a
\* marked cell takes the properties of the first region
updateGasPropertiesGhostTreated(s) ==
    IF s.interfaceMethod = "mixed" THEN
        assignProperties(s, [i \in 0..(s.nx - 1) |-> computeMixtureProperties(s, i)])
    ELSE IF s.interfaceMethod = "ghost" THEN
        assignProperties(identifyInterfaceCells(s),
            [i \in 0..(s.nx - 1) |->
                IF i \in interfaceCellsOf(s, tracerPositions(s))
                THEN s.regions[1]
                ELSE s.regions[regionIndexOf(s, tracerPositions(s), i) + 1]])
    ELSE
        sharpAssign(s)

\* updateGasProperties()
updateGasProperties(s) ==
    IF s.interfaceMethod = "mixed" THEN
        assignProperties(s, [i \in 0..(s.nx - 1) |-> computeMixtureProperties(s, i)])
    ELSE IF s.interfaceMethod = "ghost" THEN
        sharpAssign(identifyInterfaceCells(s))
    ELSE
        sharpAssign(s)

\* the upwind flux of material m at the interior interface i, for the
\* interface velocity uInterface
upwindFlux(s, i, m, uInterface) ==
    IF FGt(uInterface, 0)
    THEN FMul(uInterface, s.materialFractions[(i - 1) * s.numMaterials + m])
    ELSE FMul(uInterface, s.materialFractions[i * s.numMaterials + m])

\* the material flux array advectMaterialFractions computes: zero at the two
\* walls, upwind with the average of the adjacent cell velocities inside
advectionFluxes(s) ==
    [k \in 0..((s.nx + 1) * s.numMaterials - 1) |->
        IF k \div s.numMaterials = 0 \/ k \div s.numMaterials = s.nx THEN 0
        ELSE upwindFlux(s, k \div s.numMaterials, k % s.numMaterials,
                        FMul(Half, FAdd(s.u[(k \div s.numMaterials) - 1],
                                        s.u[k \div s.numMaterials])))]

\* Math.max(0, Math.min(1, a))
clampFraction(a) == FMax(0, FMin(One, a))

\* the clamped update of every entry of the fraction table
advectedClamped(s, dt) ==
    [idx \in 0..(s.nx * s.numMaterials - 1) |->
        clampFraction(
            FSub(s.materialFractions[idx],
                 FMul(FDiv(dt, s.dx),
                      FSub(s.materialFlux[idx + s.numMaterials], s.materialFlux[idx]))))]

RECURSIVE rowSumUpTo(_, _, _, _)
\* totalAlpha of cell i after materials 0..m of the table alpha
rowSumUpTo(alpha, numMaterials, i, m) ==
    IF m < 0 THEN 0
    ELSE FAdd(rowSumUpTo(alpha, numMaterials, i, m - 1), alpha[i * numMaterials + m])

rowSum(alpha, numMaterials, i) == rowSumUpTo(alpha, numMaterials, i, numMaterials - 1)

\* the renormalisation without the division by the row sum
renormalisedUnscaled(alpha, totals, nx, numMaterials) == alpha

\* the renormalisation of the clamped table alpha, totals being the row sums;
\* 1e-10 is below the resolution of the number model, so totalAlpha > 1e-10
\* is totalAlpha > 0 here
renormalised(alpha, totals, nx, numMaterials) ==
    [idx \in 0..(nx * numMaterials - 1) |->
        IF FGt(totals[idx \div numMaterials], 0)
        THEN FDiv(alpha[idx], totals[idx \div numMaterials])
        ELSE FDiv(One, F(numMaterials))]

\* the table written back, from the clamped table
advectedFrom(s, alpha) ==
    renormalised(alpha, [i \in 0..(s.nx - 1) |-> rowSum(alpha, s.numMaterials, i)],
                 s.nx, s.numMaterials)

\* the second loop of advectMaterialFractions, the fluxes being in materialFlux
advectUpdate(s, dt) ==
    [s EXCEPT !.materialFractions = advectedFrom(s, advectedClamped(s, dt))]

\* the first loop of advectMaterialFractions
advectFluxes(s) == [s EXCEPT !.materialFlux = advectionFluxes(s)]

\* whether advectMaterialFractions returns at once
advectReturnsEarly(s) == s.interfaceMethod # "mixed" \/ s.materialFractions = << >>

\* advectMaterialFractions(dt)
advectMaterialFractions(s, dt) ==
    IF advectReturnsEarly(s) THEN s ELSE advectUpdate(advectFluxes(s), dt)

\* Math.floor(a / b), as an index; NaN and the infinities pass through
FloorDivIdx(a, b) ==
    LET q == FDiv(a, b)
    IN IF ~IsFin(q) THEN q
       ELSE IF b > 0 THEN a \div b
       ELSE (-a) \div (-b)

\* the new position of a tracer at x (updateTracers, one tracer)
tracerMove(s, x) ==
    LET cellIdx == FloorDivIdx(x, s.dx)
        lo == FMin(s.nx - 1, cellIdx)
        clampedIdx == FMax(0, lo)
        \* this.u[NaN] is undefined, and undefined * dt is NaN
        velocity == IF clampedIdx = NaN THEN NaN ELSE s.u[clampedIdx]
        moved == FAdd(x, FMul(velocity, s.dt))
    IN FMax(0, FMin(FAdd(s.x[s.nx - 1], FMul(Half, s.dx)), moved))

\* updateTracers(): every tracer moved, and the sample pushed on its trajectory
updateTracers(s) ==
    [s EXCEPT !.tracers =
        [k \in 1..Len(s.tracers) |->
            LET nx_ == tracerMove(s, s.tracers[k].x)
            IN [x |-> nx_,
                trajectory |-> Append(s.tracers[k].trajectory, [t |-> s.t, x |-> nx_])]]]

\* ------------------------------------------------------------------------
\* Time integrators
\* ------------------------------------------------------------------------

\* 2.5, the look-ahead factor of the snapshot synchronization
LookAhead == 2500

\* 1e-10, the tolerance of the snapshot test: it lies below the resolution of
\* the number model, so abs(d) < 1e-10 is abs(d) < one unit of it
SnapEps == 1

\* the candidate step of calculateTimeStep: the CFL step, clamped to finalTime - t
candidateDt(s, maxWaveSpeed) ==
    LET dt == FDiv(FMul(s.cfl, s.dx), maxWaveSpeed)
    IN IF FGt(FAdd(s.t, dt), s.finalTime) THEN FSub(s.finalTime, s.t) ELSE dt

\* syncBranch with a look-ahead of 4 candidate steps instead of 2.5
syncBranchWide(s, dt) ==
    LET timeToNextViz == FSub(s.nextXTStore, s.t)
    IN FGt(timeToNextViz, 0) /\ FLt(timeToNextViz, FMul(4 * One, dt))

\* whether calculateTimeStep takes its synchronization branch
syncBranch(s, dt) ==
    LET timeToNextViz == FSub(s.nextXTStore, s.t)
    IN FGt(timeToNextViz, 0) /\ FLt(timeToNextViz, FMul(LookAhead, dt))

\* Math.max(1, Math.ceil(timeToNextViz / dt)), in the synchronization branch
\* (both operands finite and positive there)
numSubstepsOf(timeToNextViz, dt) ==
    LET c == (timeToNextViz + dt - 1) \div dt
    IN IF c < 1 THEN 1 ELSE c

\* calculateTimeStep without the synchronization branch: the CFL step clamped to
\* finalTime, as the solver's own run loop sized its steps before the
\* integrators took it over
calculateTimeStepUnsynchronized(s, maxWaveSpeed) == candidateDt(s, maxWaveSpeed)

\* calculateTimeStep(solver, maxWaveSpeed)
calculateTimeStep(s, maxWaveSpeed) ==
    LET dt == candidateDt(s, maxWaveSpeed)
        timeToNextViz == FSub(s.nextXTStore, s.t)
    IN IF syncBranch(s, dt)
       THEN FDiv(timeToNextViz, F(numSubstepsOf(timeToNextViz, dt)))
       ELSE dt

\* whether postStep stores a snapshot at the (already advanced) time
snapshotDue(s) ==
    FLt(FAbs(FSub(s.t, s.nextXTStore)), SnapEps) \/ FGt(s.t, s.nextXTStore)

\* the end of postStep: the snapshot, stored when it is due
postStepStore(s) ==
    IF snapshotDue(s)
    THEN [storeXTData(s) EXCEPT !.nextXTStore = FAdd(s.nextXTStore, s.xtInterval)]
    ELSE s

\* the start of postStep: the time and the step count advanced
postStepAdvance(s) == [s EXCEPT !.t = FAdd(s.t, s.dt), !.timeSteps = s.timeSteps + 1]

\* postStep(solver)
postStep(s) ==
    postStepStore(updateGasProperties(updateTracers(updatePrimitives(postStepAdvance(s)))))

\* 0.5 * a + 0.5 * b, element by element
halfSum(a, b) == [i \in DOMAIN a |-> FAdd(FMul(Half, a[i]), FMul(Half, b[i]))]

\* the opening of both integrators: the fluxes cf that computeFluxes returned
\* are in solver.flux, and solver.dt is calculateTimeStep of its wave speed
firstFluxes(s, cf) ==
    [s EXCEPT !.flux = cf.flux, !.dt = calculateTimeStep(s, cf.maxWaveSpeed)]

\* solver.computeFluxes() of a later stage, the wave speed dropped
stageFluxes(s) == [s EXCEPT !.flux = computeFluxes(s).flux]

\* solver.updateConservative(solver.U, solver.Uk, dt)
stageUpdate(s) == [s EXCEPT !.Uk = updateConservative(s, s.U, s.dt)]

\* RK2: Un = U and U = Uk after stage 1
rk2Swap(s) == [s EXCEPT !.Un = s.U, !.U = s.Uk]

\* RK2: solver.updateConservative(solver.Uk, solver.Uk, dt), stage 2 in place
rk2SecondUpdate(s) == [s EXCEPT !.Uk = updateConservativeInPlace(s, s.Uk, s.dt)]

\* rk2Average reading U, which holds the predictor at that point, instead of
\* Un: U = 0.5 * U + 0.5 * Uk
rk2AverageOfPredictor(s) == [s EXCEPT !.U = halfSum(s.U, s.Uk)]

\* RK2: U = 0.5 * Un + 0.5 * Uk
rk2Average(s) == [s EXCEPT !.U = halfSum(s.Un, s.Uk)]

\* RK2Integrator.step(solver)
RK2Step(s) ==
    postStep(rk2Average(rk2SecondUpdate(stageFluxes(rk2Swap(stageUpdate(
        firstFluxes(s, computeFluxes(s))))))))

\* U[i] + 0.5 * (Uk[i] - U[i]), the blend of SSP stages 1 and 2
sspBlend(U, Uk) == [i \in DOMAIN U |-> FAdd(U[i], FMul(Half, FSub(Uk[i], U[i])))]

\* (2.0/3.0) * v and (1.0/6.0) * v: the coefficient is taken at full precision
\* (a coefficient rounded to the resolution of the number model would not sum to 1)
MulTwoThirds(v) == FDiv(FMul(F(2), v), F(3))

MulOneSixth(v) == FDiv(v, F(6))

\* SSP: Un = U before stage 1
sspSave(s) == [s EXCEPT !.Un = s.U]

\* SSP stages 1 and 2: U = U + 0.5 * (Uk - U)
sspBlendStage(s) == [s EXCEPT !.U = sspBlend(s.U, s.Uk)]

\* stage 3 with the weights of the scheme printed above SSPIntegrator, where
\* Uk - U = dt * L(U): U = (2/3) * Un + (1/6) * U + (1/6) * (Uk - U)
sspThirdStageAsPrinted(s) ==
    [s EXCEPT !.U = [i \in DOMAIN s.U |->
        FAdd(FAdd(MulTwoThirds(s.Un[i]), MulOneSixth(s.U[i])),
             MulOneSixth(FSub(s.Uk[i], s.U[i])))]]

\* SSP stage 3: U = (2/3) * Un + (1/6) * U + (1/6) * Uk
sspThirdStage(s) ==
    [s EXCEPT !.U = [i \in DOMAIN s.U |->
        FAdd(FAdd(MulTwoThirds(s.Un[i]), MulOneSixth(s.U[i])), MulOneSixth(s.Uk[i]))]]

\* SSP stage 4: U = 0.5 * U + 0.5 * Uk
sspFourthStage(s) == [s EXCEPT !.U = halfSum(s.U, s.Uk)]

\* SSPIntegrator.step(solver)
SSPStep(s) ==
    postStep(
        sspFourthStage(stageUpdate(stageFluxes(
        sspThirdStage(stageUpdate(stageFluxes(
        sspBlendStage(stageUpdate(stageFluxes(
        sspBlendStage(stageUpdate(sspSave(
        firstFluxes(s, computeFluxes(s)))))))))))))))

\* this.integrator.step(this)
integratorStep(s) == IF s.integrator = "SSP" THEN SSPStep(s) ELSE RK2Step(s)

\* ------------------------------------------------------------------------
\* The state machine
\* ------------------------------------------------------------------------

VARIABLES
    config,   \* the configuration given to the constructor
    slabs,    \* the slab list given to initialize ("none" before the call)
    solver,   \* the EulerSolver object
    pc,       \* "constructed", "initialized", "running", "done" or "failed"
    err,      \* the exception that ended the program, or "none"
    hist,     \* what the last call of calculateTimeStep saw and did
    progressCallback, \* whether run() is given a progress callback
    sinceUpdate,      \* now - lastProgressUpdate, in ms, when run() last compared them
    progress,         \* the values delivered to the progress callback, in order
    advected          \* the arguments of the calls of advectMaterialFractions made

vars == <<config, slabs, solver, pc, err, hist,
          progressCallback, sinceUpdate, progress, advected>>

\* the variables of the progress notifications
progressVars == <<progressCallback, sinceUpdate, progress>>

\* cap on the number of steps of a run explored
MaxSteps == 14

Air == [gasId |-> "Air", gamma |-> 1400, mw |-> 28970]

Helium == [gasId |-> "Helium", gamma |-> 1667, mw |-> 4003]

\* a slab of the gas: pressure, temperature, length in the model's units
Slab(gas, pressure, temperature, length) ==
    [gasId |-> gas.gasId, gamma |-> gas.gamma, mw |-> gas.mw,
     pressure |-> pressure, temperature |-> temperature, length |-> length]

\* the slab lists given to initialize that satisfy the documented constraints
ValidSlabLists ==
    { << Slab(Air, 1000, 3000, 2000), Slab(Helium, 4000, 3000, 1000) >>,
      << Slab(Air, 4000, 3000, 1000), Slab(Air, 1000, 3000, 2000) >>,
      << Slab(Air, 1000, 3000, 3000) >>,
      << Slab(Helium, 4000, 3000, 1000), Slab(Air, 1000, 3000, 1000),
         Slab(Helium, 2000, 3000, 1000) >>,
      << Slab(Helium, 8000, 3000, 1000), Slab(Helium, 500, 3000, 2000) >> }

\* slab lists that violate one of them
InvalidSlabLists ==
    { << >>,
      << Slab([Air EXCEPT !.gamma = 1000], 1000, 3000, 3000) >>,
      << Slab([Air EXCEPT !.mw = 0], 1000, 3000, 3000) >>,
      << Slab(Air, 0, 3000, 3000) >>,
      << Slab(Air, 1000, -3000, 3000) >>,
      << Slab(Air, 1000, 3000, 0) >>,
      << Slab(Air, 1000, 3000, 2000), Slab(Helium, -4000, 3000, 1000) >> }

SlabLists == ValidSlabLists \cup InvalidSlabLists

validSlabs(sl) ==
    /\ Len(sl) > 0
    /\ \A k \in 1..Len(sl) :
          /\ sl[k].gamma > One
          /\ sl[k].mw > 0
          /\ sl[k].pressure > 0
          /\ sl[k].temperature > 0
          /\ sl[k].length > 0

Config(nx, cfl, finalTime, xtInterval, interfaceMethod, integrator) ==
    [nx |-> nx, cfl |-> cfl, finalTime |-> finalTime, xtInterval |-> xtInterval,
     interfaceMethod |-> interfaceMethod, integrator |-> integrator]

\* the grid and time parameters given to the constructor: <<nx, cfl, finalTime,
\* xtInterval>>.  The first rows are positive throughout; the last rows are not
\* (a zero selects the constructor's default).
ValidGridParams ==
    { <<3, 400, 500, 200>>,     \* finalTime not a multiple of the snapshot interval
      <<4, 400, 400, 200>>,     \* finalTime a multiple of it
      <<3, 800, 400, 100>>,
      <<3, 400, 900, 450>>,     \* the snapshot interval well above the CFL step
      <<3, 400, 300, 50>>,      \* the snapshot interval below the CFL step
      <<3, 400, 300, 1000>>,    \* the snapshot interval above finalTime
      <<3, 2000, 3000, 1000>> } \* the largest CFL number documented (for SSP)

InvalidGridParams ==
    { <<-1, 400, 500, 200>>,
      <<3, -400, 500, 200>>,
      <<3, 0, 500, 200>>,
      <<3, 400, -500, 200>>,
      <<3, 400, 0, 200>>,
      <<3, 400, 500, -200>> }

\* the configurations given to the constructor
Configs ==
    { Config(g[1], g[2], g[3], g[4], m, i) :
        g \in ValidGridParams, m \in {"sharp", "mixed"}, i \in {"RK2", "SSP"} }
    \cup
    { Config(g[1], g[2], g[3], g[4], "sharp", "RK2") : g \in InvalidGridParams }
    \cup
    { Config(3, 400, 500, 200, m, i) :
        m \in {"ghost", "levelset", ""}, i \in {"RK2", "SSP", "Euler", ""} }
    \cup
    { Config(3, 400, 500, 200, m, "Euler") : m \in {"sharp", "mixed"} }

\* the documented constraints on a configuration; a name left out ("") selects
\* the documented default
validGrid(c) ==
    /\ c.nx > 0
    /\ c.cfl > 0
    /\ c.finalTime > 0
    /\ c.xtInterval > 0

validInterfaceMethod(c) == c.interfaceMethod \in InterfaceMethods \cup {""}

validIntegrator(c) == c.integrator \in IntegratorNames \cup {""}

\* the documented range of the CFL number: (0, 1], up to 2.0 for SSP
cflInRange(c) ==
    /\ c.cfl > 0
    /\ c.cfl <= (IF c.integrator = "SSP" THEN 2 * One ELSE One)

validConfig(c) ==
    /\ validGrid(c)
    /\ validInterfaceMethod(c)
    /\ validIntegrator(c)
    /\ cflInRange(c)

NoHist == [kind |-> "none"]

\* the configurations that are also run with a progress callback
ProgressConfigs ==
    { Config(3, 400, 500, 200, "sharp", "RK2"),
      Config(3, 2000, 3000, 1000, "sharp", "SSP") }

\* the time Date.now() advances between two readings of run(), in ms
ClockAdvances == {60, 120}

\* the 100 ms of "now - lastProgressUpdate > 100"
ProgressPeriod == 100

\* cap on the number of calls of advectMaterialFractions explored
MaxAdvects == 2

\* the step sizes given to advectMaterialFractions
AdvectDts == {50, 400}

Init ==
    /\ config \in Configs
    /\ slabs = "none"
    /\ hist = NoHist
    /\ progressCallback \in BOOLEAN
    /\ progressCallback => config \in ProgressConfigs
    /\ sinceUpdate = 0
    /\ progress = << >>
    /\ advected = << >>
    /\ IF constructorThrows(config)
       THEN /\ solver = [nx |-> 0]
            /\ pc = "failed"
            /\ err = "RangeError"
       ELSE /\ solver = constructor(config)
            /\ pc = "constructed"
            /\ err = "none"

\* solver.initialize(sl)
Initialize ==
    /\ pc = "constructed"
    /\ \E sl \in SlabLists :
          /\ slabs' = sl
          /\ IF initializeThrows(solver, sl)
             THEN /\ solver' = [solver EXCEPT !.dx = FDiv(0, F(solver.nx))]
                  /\ pc' = "failed"
                  /\ err' = "TypeError"
             ELSE /\ solver' = initialize(solver, sl)
                  /\ pc' = "initialized"
                  /\ err' = err
    /\ UNCHANGED <<config, hist, progressVars, advected>>

\* the record of a call of calculateTimeStep that found the candidate step
\* cand and took (sync) or did not take its synchronization branch
histOfBranch(s, h, mws, cand, sync) ==
    [kind |-> "step",
     t |-> s.t,
     nextXTStore |-> s.nextXTStore,
     snapshots |-> Len(s.xtData),
     maxWaveSpeed |-> mws,
     cflStep |-> FDiv(FMul(s.cfl, s.dx), mws),
     candidate |-> cand,
     sync |-> sync,
     numSubsteps |-> IF sync THEN numSubstepsOf(FSub(s.nextXTStore, s.t), cand) ELSE 0,
     dt |-> calculateTimeStep(s, mws),
     prevShrunkToLand |-> /\ h.kind = "step"
                          /\ h.sync
                          /\ h.numSubsteps = 1
                          /\ FLt(h.dt, h.candidate)]

histOfCandidate(s, h, mws, cand) == histOfBranch(s, h, mws, cand, syncBranch(s, cand))

\* the record of a call of calculateTimeStep with the wave speed mws
histOfSpeed(s, h, mws) == histOfCandidate(s, h, mws, candidateDt(s, mws))

\* what calculateTimeStep sees and does in the step taken from s, and whether
\* the step before it (recorded in h) was shrunk to land on a snapshot instant
histOf(s, h) == histOfSpeed(s, h, computeFluxes(s).maxWaveSpeed)

\* runIteration with a solver whose time also advances by the wall clock
runIterationClocked(s, callback, since) ==
    [solver |-> [integratorStep(s) EXCEPT !.t = FAdd(@, since)],
     notify |-> callback /\ since > ProgressPeriod]

\* one iteration of the loop of run() in which now - lastProgressUpdate is
\* since: the solver after integrator.step(this), and whether the progress
\* callback is called
runIteration(s, callback, since) ==
    [solver |-> integratorStep(s), notify |-> callback /\ since > ProgressPeriod]

\* the progress bookkeeping of an iteration that left the solver s
runProgress(s, notify, since) ==
    /\ progress' = IF notify THEN Append(progress, FDiv(s.t, s.finalTime)) ELSE progress
    /\ sinceUpdate' = IF notify THEN 0 ELSE since

\* the end of an iteration it: the solver stored, the callback called when due
runIterationEnd(it, since) ==
    /\ solver' = it.solver
    /\ runProgress(it.solver, it.notify, since)

\* one iteration of the loop of run(): while (t < finalTime) integrator.step(this),
\* then the progress update.  Without a callback the clock is not compared.
RunStep ==
    /\ pc \in {"initialized", "running"}
    /\ FLt(solver.t, solver.finalTime)
    /\ solver.timeSteps < MaxSteps
    /\ hist' = histOf(solver, hist)
    /\ pc' = "running"
    /\ \E advance \in (IF progressCallback THEN ClockAdvances ELSE {0}) :
          runIterationEnd(runIteration(solver, progressCallback, sinceUpdate + advance),
                          sinceUpdate + advance)
    /\ UNCHANGED <<config, slabs, err, progressCallback, advected>>

\* the loop of run() ends, the final progress update is made and run() returns
RunReturn ==
    /\ pc \in {"initialized", "running"}
    /\ ~FLt(solver.t, solver.finalTime)
    /\ pc' = "done"
    /\ progress' = IF progressCallback THEN Append(progress, One) ELSE progress
    /\ UNCHANGED <<config, slabs, solver, err, hist, progressCallback, sinceUpdate, advected>>

\* solver.advectMaterialFractions(dt), called by the client after run() has
\* returned (no step calls it), when it does not return at once
AdvectCall ==
    /\ pc = "done"
    /\ ~advectReturnsEarly(solver)
    /\ Len(advected) < MaxAdvects
    /\ \E dt \in AdvectDts :
          /\ solver' = advectMaterialFractions(solver, dt)
          /\ advected' = Append(advected, dt)
    /\ UNCHANGED <<config, slabs, pc, err, hist, progressVars>>

Next == Initialize \/ RunStep \/ RunReturn \/ AdvectCall

Spec == Init /\ [][Next]_vars

\* ------------------------------------------------------------------------
\* Direct calls.  The methods of EulerSolver are public: a second state
\* machine starts from an initialized solver whose tracers, fraction table or
\* cell states are drawn from bounded sets, and applies one method to it.
\* ------------------------------------------------------------------------

\* the configurations of the solvers called directly
CallConfigs ==
    { Config(nx, 400, 500, 200, m, "RK2") : nx \in {3, 4}, m \in InterfaceMethods }

\* slab lists with a slab boundary on the centre of a cell of the 3-cell grid
CenteredSlabLists ==
    { << Slab(Air, 1000, 3000, 1500), Slab(Helium, 4000, 3000, 1500) >>,
      << Slab(Helium, 4000, 3000, 500), Slab(Air, 1000, 3000, 2000),
         Slab(Helium, 2000, 3000, 500) >> }

\* the slab lists of the solvers called directly
CallSlabLists == ValidSlabLists \cup CenteredSlabLists

\* tracer positions: the ends of the domain, cell centres of the 3-cell and
\* the 4-cell grid (500, 1500, 2500; 1125), and points between
TracerPoints == {0, 400, 500, 1125, 1500, 1600, 2500, 3000}

\* the solver with its tracers at the positions xs (in the order of xs)
placeTracers(s, xs) ==
    [s EXCEPT !.tracers =
        [k \in 1..Len(xs) |-> [x |-> xs[k], trajectory |-> <<[t |-> 0, x |-> xs[k]]>>]]]

\* the position lists drawn for a solver of n regions: one position per slab
\* boundary, in any order; for two regions also two positions, as many as
\* regions
TracerPlacements(n) ==
    IF n = 1 THEN { << >> }
    ELSE IF n = 2 THEN { <<a>> : a \in TracerPoints }
                       \cup { <<a, b>> : a \in TracerPoints, b \in TracerPoints }
    ELSE { <<a, b>> : a \in TracerPoints, b \in TracerPoints }

\* cell states with density > 0 and pressure > 0: at rest, moving either way
\* below the speed of sound, and above it (the magnitudes keep every
\* intermediate value of hllcFlux within the finite range of the number model)
WallCellStates ==
    [rho : {500, 2000}, u : {-1500, -400, 0, 400, 1500}, p : {500, 2000}]

\* the conservative state <<rho, rho*u, E>> of the cell state c for the gas gamma
conservativeOf(c, gamma) ==
    << c.rho, FMul(c.rho, c.u),
       FAdd(FDiv(c.p, FSub(gamma, One)), FMul(FMul(FMul(Half, c.rho), c.u), c.u)) >>

\* the solver with its first cell in the state left and its last cell in the
\* state right
withWallCells(s, left, right) ==
    updatePrimitives(
        [s EXCEPT !.U = [j \in 0..(s.nx * 3 - 1) |->
            IF j \div 3 = 0 THEN conservativeOf(left, s.gamma[0])[(j % 3) + 1]
            ELSE IF j \div 3 = s.nx - 1
                 THEN conservativeOf(right, s.gamma[s.nx - 1])[(j % 3) + 1]
                 ELSE s.U[j]]])

\* rows of the fraction table for n materials: pure cells, ties between the
\* largest fractions, unequal mixtures, and rows that the rounding of the
\* number model leaves summing to 0.999
FractionRows(n) ==
    IF n = 1 THEN { <<1000>> }
    ELSE IF n = 2
    THEN { <<1000, 0>>, <<0, 1000>>, <<500, 500>>, <<300, 700>>, <<666, 333>> }
    ELSE { <<1000, 0, 0>>, <<0, 1000, 0>>, <<0, 0, 1000>>, <<500, 500, 0>>,
           <<0, 500, 500>>, <<200, 300, 500>>, <<333, 333, 333>> }

\* the solver with the row first in its first cell and the row rest in its
\* other cells
withFractions(s, first, rest) ==
    [s EXCEPT !.materialFractions =
        [idx \in 0..(s.nx * s.numMaterials - 1) |->
            IF idx \div s.numMaterials = 0 THEN first[(idx % s.numMaterials) + 1]
            ELSE rest[(idx % s.numMaterials) + 1]]]

\* the solvers drawn from the initialized solver s
CallSolvers(s) ==
    {s}
    \cup (IF s.interfaceMethod = "mixed" THEN {}
          ELSE { placeTracers(s, xs) : xs \in TracerPlacements(Len(s.regions)) })
    \cup (IF s.interfaceMethod # "sharp" THEN {}
          ELSE { withWallCells(s, c, [c EXCEPT !.u = k * c.u]) :
                    c \in WallCellStates, k \in {1, -1} })
    \cup (IF s.interfaceMethod # "mixed" THEN {}
          ELSE { withFractions(s, first, rest) :
                    first \in FractionRows(s.numMaterials),
                    rest \in FractionRows(s.numMaterials) })

CallsInit ==
    /\ config \in CallConfigs
    /\ slabs \in CallSlabLists
    /\ solver \in CallSolvers(initialize(constructor(config), slabs))
    /\ pc = "initialized"
    /\ err = "none"
    /\ hist = NoHist
    /\ progressCallback = FALSE
    /\ sinceUpdate = 0
    /\ progress = << >>
    /\ advected = << >>

\* solver.updateGasProperties()
UpdateGasPropertiesCall ==
    /\ pc = "initialized"
    /\ solver' = updateGasProperties(solver)
    /\ pc' = "updated"
    /\ UNCHANGED <<config, slabs, err, hist, progressVars, advected>>

\* a second call of initialize(slabs) on the instance that initialize left
InitializeAgain ==
    /\ pc = "initialized"
    /\ solver = initialize(constructor(config), slabs)
    /\ \E sl \in CallSlabLists :
          /\ slabs' = sl
          /\ solver' = initialize(solver, sl)
    /\ pc' = "reinitialized"
    /\ UNCHANGED <<config, err, hist, progressVars, advected>>

\* solver.computeFluxes()
ComputeFluxesCall ==
    /\ pc = "initialized"
    /\ solver' = stageFluxes(solver)
    /\ pc' = "fluxes"
    /\ UNCHANGED <<config, slabs, err, hist, progressVars, advected>>

CallsNext == UpdateGasPropertiesCall \/ ComputeFluxesCall \/ InitializeAgain

Calls == CallsInit /\ [][CallsNext]_vars

\* ------------------------------------------------------------------------
\* Properties
\* ------------------------------------------------------------------------

\* initialize has returned
Started == pc \in {"initialized", "running", "done"}

\* the configuration and the slabs satisfy every documented constraint
validInputs == validConfig(config) /\ slabs # "none" /\ validSlabs(slabs)

\* every cell has a finite, strictly positive density and a finite, non-negative
\* pressure
physicalCells(rho, p, nx) ==
    \A i \in 0..(nx - 1) :
        /\ IsFin(rho[i]) /\ rho[i] > 0
        /\ IsFin(p[i]) /\ p[i] >= 0

\* the sum over the cells of component k of a conservative buffer
RECURSIVE sumCellsUpTo(_, _, _)
sumCellsUpTo(U, i, k) ==
    IF i < 0 THEN 0 ELSE FAdd(sumCellsUpTo(U, i - 1, k), U[i * 3 + k])

sumCells(U, nx, k) == sumCellsUpTo(U, nx - 1, k)

\* C1: a solver configured with an integrator name other than "RK2" and "SSP"
\* fails at construction; it never holds a substitute integrator.
C1_UnknownIntegratorFails ==
    (config.integrator \notin IntegratorNames \cup {""}) => pc = "failed"

\* C2: once initialize has been called with an empty slab list, or with a slab
\* whose gamma <= 1, molecular weight <= 0, pressure <= 0, temperature <= 0 or
\* length <= 0, the solver has failed: it is never initialized and never steps.
C2_InvalidSlabsRejected ==
    (slabs # "none" /\ ~validSlabs(slabs)) => pc = "failed"

\* C3: with an interface method other than "sharp", "ghost" and "mixed", or with
\* nx <= 0, CFL <= 0, finalTime <= 0 or a snapshot interval <= 0, the solver
\* never gets past construction and initialize: it is never initialized, never
\* steps and never returns from run.
C3_InvalidConfigRejected ==
    ~(validGrid(config) /\ validInterfaceMethod(config)) => ~Started

\* C4: for inputs that satisfy every documented constraint, a cell with a
\* density <= 0 or a negative or non-finite pressure stops the solver with a
\* NumericalInvariantViolation, and no stored snapshot holds such a cell.
C4_NonPhysicalStateIsFatal ==
    validInputs =>
        /\ \/ pc = "failed" /\ err = "NumericalInvariantViolation"
           \/ physicalCells(solver.rho, solver.p, solver.nx)
        /\ \A k \in 1..Len(solver.xtData) :
              physicalCells(solver.xtData[k].rho, solver.xtData[k].p, solver.nx)

\* the solver as initialize left it
initialSolver == initialize(constructor(config), slabs)

\* what the roundings of the number model may add to or take from a sum over
\* the cells in the steps taken so far
roundingBudget(s) == s.timeSteps * (2 * s.nx + 2)

driftWithin(drift, budget) == IsFin(drift) /\ drift <= budget

conserved(s, s0, k) ==
    driftWithin(FAbs(FSub(sumCells(s.U, s.nx, k), sumCells(s0.U, s.nx, k))),
                roundingBudget(s))

\* C5: for inputs that satisfy every documented constraint, after any number of
\* steps of either integrator the sum over the cells of the density and the sum
\* over the cells of the total energy in U are what initialize left (up to the
\* roundings of the number model).
C5_MassAndEnergyConserved ==
    (Started /\ validInputs) =>
        /\ conserved(solver, initialSolver, 0)
        /\ conserved(solver, initialSolver, 2)

\* C6: after initialize and any number of steps, the snapshot times in xtData
\* are strictly increasing in list order.
C6_SnapshotTimesIncrease ==
    Started =>
        \A k \in 1..(Len(solver.xtData) - 1) :
            FLt(solver.xtData[k].t, solver.xtData[k + 1].t)

\* C7: for inputs that satisfy every documented constraint, when run has
\* returned at finalTime the time of the last snapshot is finalTime (the
\* tolerance of the claim is below the resolution of the number model).
C7_LastSnapshotAtFinalTime ==
    (validInputs /\ pc = "done" /\ solver.t = solver.finalTime) =>
        solver.xtData[Len(solver.xtData)].t = solver.finalTime

\* C8: for inputs that satisfy every documented constraint, the k-th snapshot
\* (k = 0, 1, 2, ...) has time k * xtInterval: no snapshot is captured at any
\* other time.
C8_SnapshotsAtFixedCadence ==
    (Started /\ validInputs) =>
        \A k \in 1..Len(solver.xtData) :
            solver.xtData[k].t = FMul(F(k - 1), solver.xtInterval)

\* the time to the next snapshot instant that the last step's calculateTimeStep
\* saw
timeToNextVizSeen == FSub(hist.nextXTStore, hist.t)

\* the next snapshot instant lay inside the last step's candidate time step
snapshotInsideCandidate ==
    /\ hist.kind = "step"
    /\ FGt(timeToNextVizSeen, 0)
    /\ FLe(timeToNextVizSeen, hist.candidate)

\* C9: whenever the next snapshot instant lies inside the candidate step
\* (0 < nextXTStore - t <= candidate dt), the step's dt lands on it
\* (|t + dt - nextXTStore| below the tolerance) and the step's post-processing
\* captures a snapshot, at the time reached.
C9_StepLandsOnSnapshotInstant ==
    snapshotInsideCandidate =>
        /\ FLt(FAbs(FSub(FAdd(hist.t, solver.dt), hist.nextXTStore)), SnapEps)
        /\ Len(solver.xtData) = hist.snapshots + 1
        /\ solver.xtData[Len(solver.xtData)].t = solver.t

\* a step shrunk below its candidate to land on the snapshot instant inside it
C9_Witness ==
    /\ snapshotInsideCandidate
    /\ validInputs
    /\ FLt(solver.dt, hist.candidate)
    /\ solver.t = hist.nextXTStore
    /\ Len(solver.xtData) = hist.snapshots + 1

\* C10, as claimed: the step that follows a step shrunk to land on a snapshot
\* instant uses the CFL step clamped to finalTime, whatever the snapshot
\* interval.
C10_StepAfterLandingIsOrdinary ==
    (hist.kind = "step" /\ hist.prevShrunkToLand) => solver.dt = hist.candidate

\* C10, amended: the step that follows a step shrunk to land on a snapshot
\* instant finds the next instant one snapshot interval ahead; it uses the CFL
\* step clamped to finalTime when that instant is at least 2.5 candidate steps
\* ahead, and otherwise is sized again to reach it in a whole number of steps,
\* never above its candidate.
C10_StepAfterLandingAmended ==
    (hist.kind = "step" /\ hist.prevShrunkToLand) =>
        /\ timeToNextVizSeen = solver.xtInterval
        /\ IF FGe(timeToNextVizSeen, FMul(LookAhead, hist.candidate))
           THEN solver.dt = hist.candidate
           ELSE /\ FLe(solver.dt, hist.candidate)
                /\ \E n \in 1..3 : solver.dt = FDiv(timeToNextVizSeen, F(n))

\* a step after a landing, with the next instant far enough for the CFL step
C10_Witness ==
    /\ hist.kind = "step"
    /\ hist.prevShrunkToLand
    /\ validInputs
    /\ FGe(timeToNextVizSeen, FMul(LookAhead, hist.candidate))
    /\ FGt(hist.candidate, 0)
    /\ solver.dt = hist.cflStep

\* C11: for inputs that satisfy every documented constraint, the dt that
\* calculateTimeStep returns in a step is strictly positive, at most
\* CFL*dx/maxWaveSpeed and at most finalTime - t, and the time of the solver
\* never exceeds finalTime.
C11_StepSizeBounded ==
    validInputs =>
        /\ hist.kind = "step" =>
              /\ FGt(hist.dt, 0)
              /\ FLe(hist.dt, hist.cflStep)
              /\ FLe(hist.dt, FSub(solver.finalTime, hist.t))
        /\ Started => FLe(solver.t, solver.finalTime)

mixedRun == Started /\ validInputs /\ solver.interfaceMethod = "mixed"

\* the rounding of the number model in a row of numMaterials quotients
fractionRounding(s) == s.numMaterials

\* every entry of the fraction table in [0, 1] and every row summing to 1
fractionsNormalised(s) ==
    \A i \in 0..(s.nx - 1) :
        /\ \A m \in 0..(s.numMaterials - 1) :
              /\ FGe(s.materialFractions[i * s.numMaterials + m], 0)
              /\ FLe(s.materialFractions[i * s.numMaterials + m], One)
        /\ FLe(FAbs(FSub(rowSum(s.materialFractions, s.numMaterials, i), One)),
               fractionRounding(s))

\* row i of the fraction table is the uniform distribution
uniformRow(s, i) ==
    \A m \in 0..(s.numMaterials - 1) :
        s.materialFractions[i * s.numMaterials + m] = FDiv(One, F(s.numMaterials))

\* the row sums advectMaterialFractions(dt) finds in s after clamping
clampedRowSum(s, dt, i) ==
    rowSum(advectedClamped(advectFluxes(s), dt), s.numMaterials, i)

\* C12: in mixed mode, for inputs that satisfy every documented constraint,
\* after initialize and after every call of advectMaterialFractions every
\* entry of the fraction table lies in [0, 1] and every row sums to 1; and a
\* call that finds the clamped sum of a row not above 1e-10 leaves that row
\* uniform, 1/numMaterials.
C12_FractionsNormalised ==
    /\ [](mixedRun => fractionsNormalised(solver))
    /\ [][(mixedRun /\ advected' # advected) =>
            \A i \in 0..(solver.nx - 1) :
                ~FGt(clampedRowSum(solver, advected'[Len(advected')], i), 0)
                    => uniformRow(solver', i)]_vars

\* a call of advectMaterialFractions found velocities that are not finite
\* and reset every row of a table that initialize had not left uniform
C12_Witness ==
    /\ mixedRun
    /\ advected # << >>
    /\ \A i \in 0..(solver.nx - 1) : ~IsFin(solver.u[i]) /\ uniformRow(solver, i)
    /\ \E i \in 0..(solver.nx - 1) : ~uniformRow(initialSolver, i)
    /\ fractionsNormalised(solver)

\* C13: in mixed mode, for inputs that satisfy every documented constraint,
\* the fraction table after a step is the table before it advected with the
\* velocities and the dt of that step.
C13_StepAdvectsFractions ==
    [][(mixedRun /\ pc' = "running") =>
          solver'.materialFractions =
              advectMaterialFractions(
                  [solver' EXCEPT !.materialFractions = solver.materialFractions],
                  solver'.dt).materialFractions]_vars

\* C14: after initialize(slabs) and any number of steps there are exactly
\* numSlabs - 1 tracers, and the trajectory of tracer k starts at time 0 at the
\* cumulative length of the slabs up to and including slab k.
C14_OneTracerPerBoundary ==
    Started =>
        /\ Len(solver.tracers) = Len(slabs) - 1
        /\ \A k \in 1..Len(solver.tracers) :
              solver.tracers[k].trajectory[1] = [t |-> 0, x |-> SumLengths(slabs, k)]

\* three slabs, two tracers, after two steps
C14_Witness ==
    /\ Started
    /\ Len(slabs) = 3
    /\ Len(solver.tracers) = 2
    /\ solver.timeSteps >= 2
    /\ solver.tracers[2].trajectory[1].x = FAdd(slabs[1].length, slabs[2].length)

\* C15: for inputs that satisfy every documented constraint, after n steps the
\* trajectory of every tracer has n + 1 samples, the first is (0, initial
\* position), the sample times are strictly increasing and the time of the
\* last sample is the time of the solver.
C15_TrajectoriesGrowInTime ==
    (Started /\ validInputs) =>
        \A k \in 1..Len(solver.tracers) :
            /\ Len(solver.tracers[k].trajectory) = solver.timeSteps + 1
            /\ solver.tracers[k].trajectory[1] = [t |-> 0, x |-> SumLengths(slabs, k)]
            /\ \A j \in 1..(Len(solver.tracers[k].trajectory) - 1) :
                  FLt(solver.tracers[k].trajectory[j].t,
                      solver.tracers[k].trajectory[j + 1].t)
            /\ solver.tracers[k].trajectory[Len(solver.tracers[k].trajectory)].t = solver.t

insideDomain(x, sl) == FGe(x, 0) /\ FLe(x, SumLengths(sl, Len(sl)))

\* C16: for inputs that satisfy every documented constraint, every tracer
\* position and every position recorded in a trajectory lies in
\* [0, totalLength].
C16_TracersInsideDomain ==
    (Started /\ validInputs) =>
        \A k \in 1..Len(solver.tracers) :
            /\ insideDomain(solver.tracers[k].x, slabs)
            /\ \A j \in 1..Len(solver.tracers[k].trajectory) :
                  insideDomain(solver.tracers[k].trajectory[j].x, slabs)

\* the rounding of the number model in the weighted sums of n steps (the
\* weights 0.5, 2/3 and 1/6 are rounded at each use: at most one unit in the
\* stage that closes an RK2 step, two in the two closing stages of an SSP step)
weightRounding(n) == 2 * n

\* every entry of a within tol of the entry of b
nearArray(a, b, tol) ==
    /\ DOMAIN a = DOMAIN b
    /\ \A i \in DOMAIN a : FLe(FAbs(FSub(a[i], b[i])), tol)

\* what the rounding tol of density and energy can make of the quotient
\* T = p / (rho * R) of the cell of the snapshot
quotientRounding(snapshot, tol) ==
    tol * ((snapshot.T[0] \div snapshot.rho[0]) + (snapshot.T[0] \div snapshot.p[0]) + 2) + 2

\* the snapshot a is the snapshot b but for its time: velocity and gas
\* properties equal, density, pressure and temperature equal up to the
\* rounding tol of the number model
sameField(a, b, tol) ==
    /\ a.u = b.u
    /\ a.gamma = b.gamma
    /\ a.mw = b.mw
    /\ a.gasId = b.gasId
    /\ nearArray(a.rho, b.rho, tol)
    /\ nearArray(a.p, b.p, tol + 1)
    /\ nearArray(a.T, b.T, quotientRounding(b, tol))

\* C17: for a single slab that satisfies every documented constraint there
\* are no tracers, and after any number of steps the conservative state, the
\* primitives and the gas properties of every cell are what initialize left
\* (up to the rounding of the weights in the number model; momentum, velocity
\* and gas properties exactly), so every snapshot is the initial snapshot but
\* for its time.
C17_SingleSlabIsTimeInvariant ==
    (Started /\ validInputs /\ Len(slabs) = 1) =>
        /\ solver.tracers = << >>
        /\ nearArray(solver.U, initialSolver.U, weightRounding(solver.timeSteps))
        /\ \A i \in 0..(solver.nx - 1) : solver.U[i * 3 + 1] = 0
        /\ sameField(snapshotOf(solver), snapshotOf(initialSolver),
                     weightRounding(solver.timeSteps))
        /\ \A k \in 1..Len(solver.xtData) :
              sameField(solver.xtData[k], initialSolver.xtData[1],
                        weightRounding(solver.timeSteps))

\* a single slab, three steps taken in mixed mode, a snapshot stored by a step
C17_Witness ==
    /\ Started /\ validInputs /\ Len(slabs) = 1
    /\ solver.interfaceMethod = "mixed"
    /\ solver.timeSteps >= 3
    /\ Len(solver.xtData) >= 2
    /\ FGt(solver.xtData[Len(solver.xtData)].t, 0)

\* C18: the solver that initialize leaves depends on the configuration and the
\* slabs only, and the solver after an iteration of run() (its time, dt,
\* snapshots and tracer trajectories included) is integrator.step of the
\* solver before it, whatever the clock reads and whether or not a progress
\* callback is given; so two runs with the same configuration and slabs go
\* through the same solver states.
C18_RunIsDeterministic ==
    /\ [](pc = "initialized" => solver = initialSolver)
    /\ [][pc' = "running" => solver' = integratorStep(solver)]_vars

\* a run with a callback in which the clock let some notifications through
\* and held others back
C18_Witness ==
    /\ pc = "running"
    /\ progressCallback
    /\ solver.timeSteps >= 3
    /\ Len(progress) >= 1
    /\ Len(progress) < solver.timeSteps

\* C19: for inputs that satisfy every documented constraint, every value
\* delivered to the progress callback is in [0, 1], the values are
\* non-decreasing in delivery order, and once run() has returned the last
\* value is 1.0, delivered after the loop.
C19_ProgressBoundedMonotone ==
    (validInputs /\ progressCallback) =>
        /\ \A k \in 1..Len(progress) : FGe(progress[k], 0) /\ FLe(progress[k], One)
        /\ \A k \in 1..(Len(progress) - 1) : FLe(progress[k], progress[k + 1])
        /\ pc = "done" => (progress # << >> /\ progress[Len(progress)] = One)

\* the arrays of a snapshot have one entry per cell
snapshotShape(snapshot, nx) ==
    /\ DOMAIN snapshot = {"t", "rho", "u", "p", "T", "gamma", "mw", "gasId"}
    /\ \A f \in {"rho", "u", "p", "T", "gamma", "mw", "gasId"} :
          DOMAIN snapshot[f] = 0..(nx - 1)

\* C20: every snapshot holds the time and the seven per-cell arrays, each of
\* length nx, and no step removes, reorders or changes a snapshot that is in
\* xtData: the list after a step is the list before it, possibly with one
\* snapshot appended.
C20_SnapshotsAppendOnly ==
    /\ [](Started => \A k \in 1..Len(solver.xtData) :
                        snapshotShape(solver.xtData[k], solver.nx))
    /\ [][Started =>
            /\ Len(solver'.xtData) \in {Len(solver.xtData), Len(solver.xtData) + 1}
            /\ \A k \in 1..Len(solver.xtData) : solver'.xtData[k] = solver.xtData[k]]_vars

\* three snapshots, the first still the one initialize stored although the
\* arrays of the solver have changed since
C20_Witness ==
    /\ Started
    /\ Len(solver.xtData) >= 3
    /\ solver.xtData[1] = initialSolver.xtData[1]
    /\ solver.rho # solver.xtData[1].rho
    /\ solver.xtData[2].rho # solver.xtData[1].rho

\* the solver with the interface method named "sharp" and the set of marked
\* interface cells emptied
asSharp(s) == [s EXCEPT !.interfaceMethod = "sharp", !.interfaceCells = {}]

ghostRun == Started /\ solver.interfaceMethod = "ghost"

\* C21: a run with the interface method "ghost" goes through the states of the
\* run with "sharp" for the same slabs and configuration: but for the method
\* name and the set of marked interface cells, the solver that initialize
\* leaves is the one it leaves in sharp mode, and the solver after a step
\* (buffers, gas properties, tracers, snapshots, time and dt) is the sharp
\* step of the solver before it with the marked cells forgotten.
C21_GhostIsSharp ==
    /\ []((ghostRun /\ pc = "initialized") =>
            asSharp(solver) =
                initialize(constructor([config EXCEPT !.interfaceMethod = "sharp"]), slabs))
    /\ [][(ghostRun /\ pc' = "running") =>
            asSharp(solver') = integratorStep(asSharp(solver))]_vars

\* a ghost run of two gases, two steps taken, cells marked and the state moved
C21_Witness ==
    /\ ghostRun
    /\ pc = "running"
    /\ solver.timeSteps >= 2
    /\ solver.interfaceCells # {}
    /\ \E i \in 0..(solver.nx - 1) : solver.gamma[i] # solver.gamma[0]
    /\ solver.U # initialSolver.U

\* the number of tracers of s strictly below the centre of cell i
tracersBelow(s, i) ==
    Cardinality({k \in 1..Len(s.tracers) : FLt(s.tracers[k].x, s.x[i])})

\* r(i) = min(numRegions - 1, number of tracers strictly below the centre)
regionOfCell(s, i) ==
    IF tracersBelow(s, i) < Len(s.regions) - 1 THEN tracersBelow(s, i)
    ELSE Len(s.regions) - 1

\* C22: in sharp and in ghost mode, after updateGasProperties every cell i
\* carries the gamma, mw and gasId of region r(i) = min(numRegions - 1, number
\* of tracer positions strictly below the centre of cell i), whatever the
\* positions of the tracers and their order.
C22_SharpRegionLookup ==
    (pc = "updated" /\ solver.interfaceMethod # "mixed") =>
        \A i \in 0..(solver.nx - 1) :
            /\ solver.gamma[i] = solver.regions[regionOfCell(solver, i) + 1].gamma
            /\ solver.mw[i] = solver.regions[regionOfCell(solver, i) + 1].mw
            /\ solver.gasId[i] = solver.regions[regionOfCell(solver, i) + 1].gasId

\* three regions, the two tracers in descending order, one of them on a cell
\* centre, and the three cells in three different regions
C22_Witness ==
    /\ pc = "updated"
    /\ solver.interfaceMethod = "sharp"
    /\ Len(solver.tracers) = 2
    /\ FGt(solver.tracers[1].x, solver.tracers[2].x)
    /\ solver.tracers[2].x = solver.x[0]
    /\ regionOfCell(solver, 0) = 0
    /\ regionOfCell(solver, 1) = 1
    /\ regionOfCell(solver, 2) = 2
    /\ solver.gamma # initialSolver.gamma

\* V - (dt/dx) * dF(V), written to a buffer of its own: dF(V) is the
\* difference of the right and left interface fluxes computed from the
\* conservative state V with the per-cell gamma of s
eulerStage(s, V, dt) ==
    updateConservative([s EXCEPT !.flux = computeFluxes([s EXCEPT !.U = V]).flux], V, dt)

\* C23: an RK2 step with step size dt leaves in U the value
\* 0.5 * U_old + 0.5 * (U* - (dt/dx) * dF(U*)), U* = U_old - (dt/dx) * dF(U_old),
\* the fluxes being computed with the gamma the cells had before the step; the
\* scratch buffer Uk, updated in place in the second stage, holds what an
\* update into a separate buffer gives, and Un holds U_old.
C23_RK2StepFormula ==
    [][(pc' = "running" /\ solver.integrator = "RK2") =>
          LET predictor == eulerStage(solver, solver.U, solver'.dt)
              corrected == eulerStage(solver, predictor, solver'.dt)
          IN /\ solver'.Un = solver.U
             /\ solver'.Uk = corrected
             /\ solver'.U = halfSum(solver.U, solver'.Uk)]_vars

\* an RK2 step of a run with valid inputs in which predictor, corrector and
\* the state before differ
C23_Witness ==
    /\ pc = "running"
    /\ validInputs
    /\ solver.integrator = "RK2"
    /\ solver.timeSteps >= 2
    /\ solver.U # solver.Un
    /\ solver.Uk # solver.U
    /\ solver.Uk # solver.Un
    /\ \A j \in DOMAIN solver.U : IsFin(solver.U[j])

RECURSIVE bufferEntries(_, _)
\* the entries 0..n-1 of the buffer f, as a sequence
bufferEntries(f, n) == IF n = 0 THEN << >> ELSE Append(bufferEntries(f, n - 1), f[n - 1])

\* the buffer f of n entries as an explicit array (TLC evaluates the entries
\* of a function expression again at each use; those of a sequence once)
evaluated(f, n) == LET q == bufferEntries(f, n) IN [j \in 0..(n - 1) |-> q[j + 1]]

\* V + dt * L(V), where L(V) = -(1/dx) * dF(V)
fullStage(s, V, dt) == evaluated(eulerStage(s, V, dt), s.nx * 3)

\* V + 0.5 * dt * L(V), with dt * L(V) taken as (V + dt * L(V)) - V
halfStage(s, V, dt) ==
    LET W == fullStage(s, V, dt)
    IN evaluated([j \in DOMAIN V |-> FAdd(V[j], FMul(Half, FSub(W[j], V[j])))], s.nx * 3)

\* stage 3 from Un, U2 and W2 = U2 + dt * L(U2).  As printed:
\* (2/3) * Un + (1/6) * U2 + (1/6) * dt * L(U2).  Otherwise:
\* (2/3) * Un + (1/3) * U2 + (1/6) * dt * L(U2), the last two terms taken as
\* (1/6) * U2 + (1/6) * (U2 + dt * L(U2)).
thirdStage(Un, U2, W2, printed) ==
    [j \in DOMAIN Un |->
        FAdd(FAdd(MulTwoThirds(Un[j]), MulOneSixth(U2[j])),
             MulOneSixth(IF printed THEN FSub(W2[j], U2[j]) ELSE W2[j]))]

\* the last stage from U3: 0.5 * U3 + 0.5 * (U3 + dt * L(U3)) = U3 + 0.5 * dt * L(U3)
fourthStage(s, U3, dt) == halfSum(U3, fullStage(s, U3, dt))

\* U_new of the four stages U1 = Un + 0.5 * dt * L(Un), U2 = U1 + 0.5 * dt * L(U1),
\* U3 and the last stage, for Un = s.U
sspStages(s, dt, printed) ==
    LET U1 == halfStage(s, s.U, dt)
        U2 == halfStage(s, U1, dt)
        U3 == evaluated(thirdStage(s.U, U2, fullStage(s, U2, dt), printed), s.nx * 3)
    IN fourthStage(s, U3, dt)

\* every entry of a equal to the entry of b or within tol of it
nearBuffer(a, b, tol) ==
    \A j \in DOMAIN a : a[j] = b[j] \/ FLe(FAbs(FSub(a[j], b[j])), tol)

cellOf(s, i) == << s.U[i * 3], s.U[i * 3 + 1], s.U[i * 3 + 2] >>

reflected(V) == << V[1], FNeg(V[2]), V[3] >>

\* the three components of the flux at interface i
fluxAt(s, i) == << s.flux[i * 3], s.flux[i * 3 + 1], s.flux[i * 3 + 2] >>

\* the flux of the left star branch for the states L and R of one gas, the
\* contact speed being 0
wallStarFlux(L, R) ==
    hllcStarFlux(L, FMin(FSub(L.u, L.a), FSub(R.u, R.a)), 0)

\* the flux that the reflected ghost state gives at the wall of cell i
\* (ghost on the left at the left wall, on the right at the right wall)
wallFlux(s, i, ghostLeft) ==
    IF ghostLeft
    THEN wallStarFlux(hllcSide(reflected(cellOf(s, i)), s.gamma[i]),
                      hllcSide(cellOf(s, i), s.gamma[i]))
    ELSE wallStarFlux(hllcSide(cellOf(s, i), s.gamma[i]),
                      hllcSide(reflected(cellOf(s, i)), s.gamma[i]))

physicalCell(s, i) == IsFin(s.rho[i]) /\ s.rho[i] > 0 /\ IsFin(s.p[i]) /\ s.p[i] > 0

\* C25: at interface 0 and at interface nx the states given to hllcFlux are
\* the adjacent cell and its reflection (momentum sign flipped, density and
\* energy unchanged), and when the adjacent cell has density > 0 and pressure
\* > 0 the flux computed there is the star flux for the contact speed 0, with
\* mass flux 0 and energy flux 0, whatever the velocity of the cell.
C25_WallsReflect ==
    pc = "fluxes" =>
        /\ interfaceStates(solver.U, solver.gamma, solver.nx, 0).UL = reflected(cellOf(solver, 0))
        /\ interfaceStates(solver.U, solver.gamma, solver.nx, 0).UR = cellOf(solver, 0)
        /\ interfaceStates(solver.U, solver.gamma, solver.nx, solver.nx).UL
              = cellOf(solver, solver.nx - 1)
        /\ interfaceStates(solver.U, solver.gamma, solver.nx, solver.nx).UR
              = reflected(cellOf(solver, solver.nx - 1))
        /\ physicalCell(solver, 0) =>
              /\ fluxAt(solver, 0) = wallFlux(solver, 0, TRUE)
              /\ fluxAt(solver, 0)[1] = 0
              /\ fluxAt(solver, 0)[3] = 0
        /\ physicalCell(solver, solver.nx - 1) =>
              /\ fluxAt(solver, solver.nx) = wallFlux(solver, solver.nx - 1, FALSE)
              /\ fluxAt(solver, solver.nx)[1] = 0
              /\ fluxAt(solver, solver.nx)[3] = 0

\* the first cell moves into the left wall faster than sound, the last cell
\* away from the right wall: no mass or energy crosses either wall, and the
\* wall pressure is above the cell pressure on the left, below it on the right
C25_Witness ==
    /\ pc = "fluxes"
    /\ physicalCell(solver, 0)
    /\ physicalCell(solver, solver.nx - 1)
    /\ solver.u[0] = -1500
    /\ FLt(solver.u[solver.nx - 1], 0)
    /\ fluxAt(solver, 0)[1] = 0
    /\ fluxAt(solver, solver.nx)[3] = 0
    /\ FGt(fluxAt(solver, 0)[2], solver.p[0])
    /\ FLt(fluxAt(solver, solver.nx)[2], solver.p[solver.nx - 1])

\* the fraction of material m (0-based) in cell i
fractionOf(s, i, m) == s.materialFractions[i * s.numMaterials + m]

RECURSIVE fractionSum(_, _, _, _)
\* the sum over the materials 0..m-1 of cell i of alpha (weight "one"),
\* alpha / (gamma_m - 1) (weight "gamma") or alpha * mw_m (weight "mw")
fractionSum(s, i, m, weight) ==
    IF m = 0 THEN 0
    ELSE FAdd(fractionSum(s, i, m - 1, weight),
              CASE weight = "gamma" ->
                       FDiv(fractionOf(s, i, m - 1),
                            FSub(s.materialProperties[m].gamma, One))
                [] weight = "mw" ->
                       FMul(fractionOf(s, i, m - 1), s.materialProperties[m].mw)
                [] OTHER -> fractionOf(s, i, m - 1))

\* the material of the highest fraction in cell i, the lowest index on a tie
highestFraction(s, i) ==
    CHOOSE m \in 0..(s.numMaterials - 1) :
        /\ \A k \in 0..(s.numMaterials - 1) : FLe(fractionOf(s, i, k), fractionOf(s, i, m))
        /\ \A k \in 0..(m - 1) : FLt(fractionOf(s, i, k), fractionOf(s, i, m))

\* cell i holds material m only
pureCell(s, i, m) ==
    \A k \in 0..(s.numMaterials - 1) : fractionOf(s, i, k) = (IF k = m THEN One ELSE 0)

\* C26: in mixed mode, after updateGasProperties every cell whose fractions
\* have a positive total carries gamma_mix with 1 / (gamma_mix - 1) =
\* (sum of alpha_m / (gamma_m - 1)) / total, mw = (sum of alpha_m * mw_m) /
\* total and the gasId of the material of the highest fraction, the lowest
\* index on a tie; a cell with fraction 1 for one material and 0 for the
\* others carries exactly the gamma, mw and gasId of that material.
C26_MixtureProperties ==
    (pc = "updated" /\ solver.interfaceMethod = "mixed") =>
        \A i \in 0..(solver.nx - 1) :
            /\ FGt(fractionSum(solver, i, solver.numMaterials, "one"), 0) =>
                  /\ solver.gamma[i] =
                        FAdd(One, FDiv(One,
                            FDiv(fractionSum(solver, i, solver.numMaterials, "gamma"),
                                 fractionSum(solver, i, solver.numMaterials, "one"))))
                  /\ solver.mw[i] =
                        FDiv(fractionSum(solver, i, solver.numMaterials, "mw"),
                             fractionSum(solver, i, solver.numMaterials, "one"))
                  /\ solver.gasId[i] =
                        solver.materialProperties[highestFraction(solver, i) + 1].gasId
            /\ \A m \in 0..(solver.numMaterials - 1) :
                  pureCell(solver, i, m) =>
                      /\ solver.gamma[i] = solver.materialProperties[m + 1].gamma
                      /\ solver.mw[i] = solver.materialProperties[m + 1].mw
                      /\ solver.gasId[i] = solver.materialProperties[m + 1].gasId

\* three materials: the first cell pure helium where initialize had put
\* something else or the same, another cell with air and helium tied, which
\* carries the id of air (the lower index) and a gamma between the two
C26_Witness ==
    /\ pc = "updated"
    /\ solver.interfaceMethod = "mixed"
    /\ solver.numMaterials = 3
    /\ pureCell(solver, 0, 2)
    /\ fractionOf(solver, 1, 1) = Half
    /\ fractionOf(solver, 1, 2) = Half
    /\ solver.gasId[1] = "Air"
    /\ solver.materialProperties[3].gasId = "Helium"
    /\ FGt(solver.gamma[1], Air.gamma)
    /\ FLt(solver.gamma[1], Helium.gamma)

\* the last snapshot of xtData
lastSnapshot == solver.xtData[Len(solver.xtData)]

\* the primitives that the conservative state of s gives with the gamma and
\* the molecular weight stored in the snapshot
primitivesFor(s, snapshot) ==
    updatePrimitives([s EXCEPT !.gamma = snapshot.gamma, !.mw = snapshot.mw])

\* C27: for inputs that satisfy every documented constraint, the snapshot
\* stored at the time the solver has reached holds, for every cell, the
\* pressure p = (gamma - 1) * (E - 0.5 * rho * u^2) and the temperature
\* T = p / (rho * Ru / mw) that the conservative state of that step gives with
\* the gamma and the mw stored in the same snapshot.
C27_SnapshotsConsistent ==
    (Started /\ validInputs /\ lastSnapshot.t = solver.t) =>
        /\ lastSnapshot.p = primitivesFor(solver, lastSnapshot).p
        /\ lastSnapshot.T = primitivesFor(solver, lastSnapshot).T

\* C28: when updateGasProperties runs with the sharp region lookup while every
\* tracer is still at its initial slab boundary, no cell's gamma, mw or gasId
\* changes: the slab scan of initialize and the lookup agree, also for a cell
\* whose centre lies exactly on a slab boundary.
C28_ScanAgreesWithLookup ==
    [][(/\ UpdateGasPropertiesCall
        /\ solver.interfaceMethod # "mixed"
        /\ solver.tracers = initialSolver.tracers)
          => /\ solver'.gamma = solver.gamma
             /\ solver'.mw = solver.mw
             /\ solver'.gasId = solver.gasId]_vars

\* the state initialize(slabs) is to establish: a tracer between every two
\* slabs, one snapshot at t = 0, and time, step counter and snapshot
\* schedule at the values the constructor gives them
freshState(s, numSlabs) ==
    /\ Len(s.tracers) = numSlabs - 1
    /\ Len(s.xtData) = 1
    /\ s.xtData[1].t = 0
    /\ s.t = 0
    /\ s.timeSteps = 0
    /\ s.nextXTStore = 0

\* C29: after initialize(slabs) has been called on a solver, the first time
\* or a second time on the same instance, there are exactly numSlabs - 1
\* tracers, xtData holds exactly one snapshot (at t = 0), and t, timeSteps and
\* the snapshot schedule are at their initial values.
C29_InitializeIsFresh ==
    ((pc = "initialized" /\ solver = initialSolver) \/ pc = "reinitialized")
        => freshState(solver, Len(slabs))

\* C30: for inputs that satisfy every documented constraint (CFL > 0 and
\* finalTime > 0 among them), run() returns only when the simulated time has
\* reached finalTime: on return t equals finalTime, it is neither less than
\* finalTime nor a non-finite value.
C30_RunReturnsAtFinalTime ==
    (validInputs /\ pc = "done") => solver.t = solver.finalTime

====
